---- MODULE Spec2Model ----
(***************************************************************************)
(* Ubike-ops: the collector / storage / retention pipeline, the scheduler  *)
(* of main.py and the trend / forecast / rebalance engine.                 *)
(*                                                                         *)
(* Time is counted in minutes.  utc is the real instant; the collector's   *)
(* clock (datetime.now()) reads the host's local time utc + offset, and    *)
(* SQLite's datetime('now', ...) reads utc.  collection_time is a TEXT     *)
(* column holding the ISO form of a naive datetime; ISO strings of one     *)
(* format compare as the instants they denote, so the column is modelled   *)
(* by the number of minutes the string denotes.                            *)
(*                                                                         *)
(* The table stations_realtime is the sequence store, in rowid order.      *)
(***************************************************************************)
EXTENDS Integers, Sequences, FiniteSets, TLC

VARIABLES
    store,      \* stations_realtime: sequence of rows, in rowid order
    utc,        \* the real instant, minutes
    offset,     \* host local time minus UTC, minutes (fixed for a run)
    last,       \* what the last operation was, its inputs and its outcome
    advice,     \* the last advisory run: its parameters, snapshot and lists
    pc,         \* where main() stands
    nextJob,    \* next_run of the scheduled job, minutes
    nextCleanup \* next_run of the scheduled cleanup_old_data, minutes

vars == <<store, utc, offset, last, advice, pc, nextJob, nextCleanup>>
sched == <<pc, nextJob, nextCleanup>>

NoAdvice == [ran |-> FALSE]

----------------------------------------------------------------------------
(* Bounds of the model *)

MaxRows == 2          \* rows the table may hold
MaxBatch == 2         \* elements of one feed array
MaxTicks == 3         \* half-day clock steps of the storage specification
MaxLimit == 2         \* largest LIMIT asked of the history query
MaxDays == 1          \* largest retention age asked of cleanup_old_data
MaxMinutes == 62      \* minutes the scheduler specification runs for
MaxDur == 2           \* longest cycle of the scheduler specification, minutes
MaxSchedRows == 1     \* rows the table may hold in the scheduler specification
MaxPolls == 3         \* polls saved in the advisor specification
MaxAdvMinutes == 3    \* minutes the advisor specification runs for
MaxAhead == 2         \* longest forecast horizon asked for, minutes
MaxScenMinutes == 3   \* minutes the scenario specification runs for
MaxScript == 5        \* attempts of one request the server's behaviour is drawn for
MaxFeedMinutes == 1   \* minutes the feed specification runs for
MaxStopMinutes == 61  \* minutes the stop-signal specification runs for
MaxOpsMinutes == 1    \* minutes the operations specification runs for
MaxOpsRows == 6       \* rows the table may hold in the operations specification

HalfDay == 12 * 60
MinutesPerDay == 24 * 60

Stations == {"A", "B"}
Offsets == {0 - HalfDay, 0, HalfDay}
Orders == {"asc", "desc"}

----------------------------------------------------------------------------
(* Small helpers on sequences *)

Max(a, b) == IF a >= b THEN a ELSE b
Min(a, b) == IF a <= b THEN a ELSE b

Range(s) == {s[i] : i \in 1..Len(s)}

Take(s, n) == SubSeq(s, 1, Min(n, Len(s)))

Reverse(s) == [i \in 1..Len(s) |-> s[Len(s) + 1 - i]]

\* how many records of the frame name the station
CountSno(df, sno) == Cardinality({i \in 1..Len(df) : df[i].sno = sno})

\* how many of the rows are newer than t
CountNewer(rows, t) == Cardinality({i \in 1..Len(rows) : rows[i].collection_time > t})

\* all sequences over S of length at most n
SeqsUpTo(S, n) == UNION {[1..k -> S] : k \in 0..n}

----------------------------------------------------------------------------
(* The feed response, as session.get(API_URL, timeout=10) hands it over.   *)
(* exc: the transport raised (timeout, connection error, retries spent).   *)
(* status: the HTTP status of the last response.  json: the body parses.   *)
(* shape: what the parsed body is.  elems: what "for s in data" yields: the*)
(* elements of an array, or the keys (strings) of an object.  An element   *)
(* is a station object (obj) or anything else (a number, null, a string).  *)
(* A raw count is what the feed gives for available_rent_bikes /           *)
(* available_return_bikes: an integer (k = "int") or something int()       *)
(* rejects (k = "bad").                                                    *)

RawInt(n) == [k |-> "int", v |-> n]
RawBad == [k |-> "bad", v |-> 0]

NonObject == [obj |-> FALSE, sno |-> "", rent |-> RawBad, ret |-> RawBad]

StationObjects(rents, rets) ==
    [obj : {TRUE}, sno : Stations, rent : rents, ret : rets]

TransportError ==
    [exc |-> TRUE, status |-> 0, json |-> FALSE, shape |-> "scalar", elems |-> <<>>]
BadStatus(code) ==
    [exc |-> FALSE, status |-> code, json |-> FALSE, shape |-> "scalar", elems |-> <<>>]
NotJson ==
    [exc |-> FALSE, status |-> 200, json |-> FALSE, shape |-> "scalar", elems |-> <<>>]
JsonScalar ==
    [exc |-> FALSE, status |-> 200, json |-> TRUE, shape |-> "scalar", elems |-> <<>>]
JsonObject(nkeys) ==
    [exc |-> FALSE, status |-> 200, json |-> TRUE, shape |-> "object",
     elems |-> [i \in 1..nkeys |-> NonObject]]
JsonArray(es) ==
    [exc |-> FALSE, status |-> 200, json |-> TRUE, shape |-> "array", elems |-> es]

\* every response whose array elements are drawn from elemSet
Responses(elemSet) ==
    {TransportError, BadStatus(404), BadStatus(503), NotJson, JsonScalar,
     JsonObject(0), JsonObject(1)}
    \cup {JsonArray(es) : es \in SeqsUpTo(elemSet, MaxBatch)}

\* the body is an array whose elements are all station objects
IsStationArray(resp) ==
    /\ ~resp.exc /\ resp.status = 200 /\ resp.json /\ resp.shape = "array"
    /\ \A i \in 1..Len(resp.elems) : resp.elems[i].obj

----------------------------------------------------------------------------
(* collector.py *)

None == [tag |-> "none", rows |-> <<>>]
Raised == [tag |-> "raise", rows |-> <<>>]
DataFrame(rows) == [tag |-> "df", rows |-> rows]

\* int(s.get(key, 0)) under try / except: 0 when int() raises
ToCount(raw) == IF raw.k = "int" THEN raw.v ELSE 0

\* one record of the frame, collector.py 115-125
Record(s, now) ==
    [time |-> now, sno |-> s.sno, rent |-> ToCount(s.rent), return |-> ToCount(s.ret)]

fetch_data(resp, now) ==
    IF resp.exc THEN None
    ELSE IF resp.status # 200 THEN None
    ELSE IF ~resp.json THEN None
    \* len(data), outside any try: TypeError on a number, a boolean, null
    ELSE IF resp.shape = "scalar" THEN Raised
    \* s.get("mday"), outside any try: AttributeError on a non-object
    ELSE IF \E i \in 1..Len(resp.elems) : ~resp.elems[i].obj THEN Raised
    ELSE IF resp.elems = <<>> THEN None
    ELSE DataFrame([i \in 1..Len(resp.elems) |-> Record(resp.elems[i], now)])

----------------------------------------------------------------------------
(* database.py *)

\* the rows save_data hands to to_sql: time -> collection_time,
\* return -> return_count; the counts are integers already
save_data_rows(df) ==
    [i \in 1..Len(df) |->
        [collection_time |-> df[i].time, sno |-> df[i].sno,
         rent |-> df[i].rent, return_count |-> df[i].return]]

\* mutant: a record whose (sno, collection_time) is stored already is left out
save_data_dedup(st, df, dbOk) ==
    IF df = <<>> THEN [store |-> st, raised |-> FALSE]
    ELSE IF dbOk
    THEN [store |-> st \o SelectSeq(save_data_rows(df),
                                    LAMBDA r : \A k \in 1..Len(st) :
                                        ~(st[k].sno = r.sno
                                          /\ st[k].collection_time = r.collection_time)),
          raised |-> FALSE]
    ELSE [store |-> st, raised |-> TRUE]

\* save_data: nothing on an empty frame; else one INSERT of all rows,
\* which the engine either completes (dbOk) or fails as a whole, raising
save_data(st, df, dbOk) ==
    IF df = <<>> THEN [store |-> st, raised |-> FALSE]
    ELSE IF dbOk THEN [store |-> st \o save_data_rows(df), raised |-> FALSE]
    ELSE [store |-> st, raised |-> TRUE]

\* datetime('now', '-{days} days'): SQLite's now is UTC
Cutoff(nowUtc, days) == nowUtc - days * MinutesPerDay

\* mutant: the DELETE takes one row a call, the first that is too old
cleanup_old_data_one(st, days, nowUtc, dbOk) ==
    LET old == {i \in 1..Len(st) : st[i].collection_time < Cutoff(nowUtc, days)}
        k == CHOOSE i \in old : \A j \in old : i <= j
    IN  IF ~dbOk THEN [store |-> st, raised |-> TRUE]
        ELSE IF old = {} THEN [store |-> st, raised |-> FALSE]
        ELSE [store |-> SubSeq(st, 1, k - 1) \o SubSeq(st, k + 1, Len(st)),
              raised |-> FALSE]

\* DELETE FROM stations_realtime WHERE collection_time < datetime('now', ...)
cleanup_old_data(st, days, nowUtc, dbOk) ==
    IF dbOk
    THEN [store |-> SelectSeq(st, LAMBDA r : ~(r.collection_time < Cutoff(nowUtc, days))),
          raised |-> FALSE]
    ELSE [store |-> st, raised |-> TRUE]

\* mutant: the frame replaces the table (if_exists="replace")
job_replacing(st, resp, now, dbOk) ==
    IF fetch_data(resp, now).tag = "raise"
    THEN [store |-> st, raised |-> TRUE, fetch |-> fetch_data(resp, now)]
    ELSE IF fetch_data(resp, now).tag = "none"
    THEN [store |-> st, raised |-> FALSE, fetch |-> fetch_data(resp, now)]
    ELSE [store |-> save_data(<<>>, fetch_data(resp, now).rows, dbOk).store,
          raised |-> save_data(<<>>, fetch_data(resp, now).rows, dbOk).raised,
          fetch |-> fetch_data(resp, now)]

\* job(): fetch_data, then save_data unless there is no frame
job(st, resp, now, dbOk) ==
    LET df == fetch_data(resp, now)
    IN  IF df.tag = "raise" THEN [store |-> st, raised |-> TRUE, fetch |-> df]
        ELSE IF df.tag = "none" THEN [store |-> st, raised |-> FALSE, fetch |-> df]
        ELSE LET w == save_data(st, df.rows, dbOk)
             IN  [store |-> w.store, raised |-> w.raised, fetch |-> df]


----------------------------------------------------------------------------
(* Queries *)

\* ORDER BY collection_time ASC: rows of equal collection_time come in
\* rowid order (idx_sno_time is scanned forwards)
RECURSIVE InsertByTime(_, _)
InsertByTime(sorted, r) ==
    IF sorted = <<>> THEN <<r>>
    ELSE IF sorted[Len(sorted)].collection_time <= r.collection_time
         THEN Append(sorted, r)
         ELSE Append(InsertByTime(SubSeq(sorted, 1, Len(sorted) - 1), r),
                     sorted[Len(sorted)])

RECURSIVE OrderByTimeAsc(_)
OrderByTimeAsc(rows) ==
    IF rows = <<>> THEN <<>>
    ELSE InsertByTime(OrderByTimeAsc(SubSeq(rows, 1, Len(rows) - 1)), rows[Len(rows)])

\* ORDER BY collection_time DESC: the same index scanned backwards
OrderByTimeDesc(rows) == Reverse(OrderByTimeAsc(rows))

RowsOf(st, sno) == SelectSeq(st, LAMBDA r : r.sno = sno)

\* SELECT ... WHERE sno = :sno ORDER BY collection_time {ASC|DESC} LIMIT :limit
get_station_timeseries(st, sno, limit, order) ==
    IF order = "asc"
    THEN Take(OrderByTimeAsc(RowsOf(st, sno)), limit)
    ELSE Take(OrderByTimeDesc(RowsOf(st, sno)), limit)

\* SELECT sno, MAX(collection_time) ... GROUP BY sno, as a function of sno
MaxTime(st, sno) ==
    CHOOSE t \in {r.collection_time : r \in Range(RowsOf(st, sno))} :
        \A r \in Range(RowsOf(st, sno)) : r.collection_time <= t

\* mutant: the subquery takes MIN(collection_time)
get_current_status_oldest(st) ==
    SelectSeq(st, LAMBDA r :
        \A i \in 1..Len(st) :
            st[i].sno = r.sno => r.collection_time <= st[i].collection_time)

\* t1 JOIN t2 ON t1.sno = t2.sno AND t1.collection_time = t2.max_time
get_current_status(st) ==
    SelectSeq(st, LAMBDA r : r.collection_time = MaxTime(st, r.sno))

----------------------------------------------------------------------------
(* The storage specification: the collector's job and the retention run,   *)
(* called in any order while the clock moves on in half-day steps.  last   *)
(* describes the operation that has just completed at the present instant: *)
(* its response or age, whether it raised, the table before it and the     *)
(* frame fetch_data built; it is cleared when the clock moves on.          *)

SpecRents == {RawInt(0), RawInt(1)}
SpecRets == {RawInt(1)}
SpecElems == StationObjects(SpecRents, SpecRets) \cup {NonObject}
SpecDays == 0..MaxDays

Idle == [op |-> "none", resp |-> NotJson, fetch |-> "none", raised |-> FALSE,
         before |-> <<>>, batch |-> <<>>, days |-> 0]

Init ==
    /\ store = <<>>
    /\ utc = 0
    /\ offset \in Offsets
    /\ last = Idle
    /\ advice = NoAdvice
    /\ pc = "off"
    /\ nextJob = 0
    /\ nextCleanup = 0

Tick ==
    /\ utc < MaxTicks * HalfDay
    /\ utc' = utc + HalfDay
    /\ last' = Idle
    /\ UNCHANGED <<store, offset, advice, sched>>

Job ==
    \E resp \in Responses(SpecElems), dbOk \in BOOLEAN :
        LET j == job(store, resp, utc + offset, dbOk)
        IN  /\ Len(store) + Len(resp.elems) <= MaxRows
            \* the collector's clock has moved on since the last saved poll
            /\ \A i \in 1..Len(store) : store[i].collection_time < utc + offset
            /\ store' = j.store
            /\ last' = [op |-> "job", resp |-> resp, fetch |-> j.fetch.tag,
                        raised |-> j.raised, before |-> store,
                        batch |-> j.fetch.rows, days |-> 0]
            /\ UNCHANGED <<utc, offset, advice, sched>>

Cleanup ==
    \E days \in SpecDays, dbOk \in BOOLEAN :
        LET c == cleanup_old_data(store, days, utc, dbOk)
        IN  /\ store' = c.store
            /\ last' = [op |-> "cleanup", resp |-> NotJson, fetch |-> "none",
                        raised |-> c.raised, before |-> store,
                        batch |-> <<>>, days |-> days]
            /\ UNCHANGED <<utc, offset, advice, sched>>

Next == Tick \/ Job \/ Cleanup

Spec == Init /\ [][Next]_vars


----------------------------------------------------------------------------
(* Claims on the collector and the storage queries *)

Saved == last.op = "job" /\ last.fetch = "df" /\ ~last.raised

StationsIn(st) == {st[i].sno : i \in 1..Len(st)}

\* C2: fetch_data returns the no-data result and never raises, whatever the
\* feed does: a transport error, a non-200 status, a body that is not JSON,
\* a JSON body that is not an array of station objects.
C2_FetchNeverRaises ==
    (last.op = "job" /\ ~IsStationArray(last.resp)) => last.fetch = "none"

\* C3: get_current_status returns exactly one row per distinct station_id of
\* the table, and that row has the station's greatest collection_time.
C3_OneLatestRowPerStation ==
    \A sno \in StationsIn(store) :
        LET got == RowsOf(get_current_status(store), sno)
        IN  /\ Len(got) = 1
            /\ \A i \in 1..Len(store) :
                  store[i].sno = sno => store[i].collection_time <= got[1].collection_time

\* the rows of res run in the asked direction
InDirection(res, order) ==
    \A i \in 1..(Len(res) - 1) :
        IF order = "asc"
        THEN res[i].collection_time <= res[i + 1].collection_time
        ELSE res[i].collection_time >= res[i + 1].collection_time

\* res holds the rows of the station with the greatest collection_time: no
\* row of the station that is newer than a returned row was left out
MostRecentOf(res, all) ==
    \A i \in 1..Len(res) :
        CountNewer(all, res[i].collection_time) = CountNewer(res, res[i].collection_time)

\* C4: for every limit >= 1 and both orders, get_station_timeseries returns
\* the min(limit, n) most recent rows of the station, in the asked direction.
C4_HistoryIsMostRecent ==
    \A sno \in Stations, limit \in 1..MaxLimit, order \in Orders :
        LET res == get_station_timeseries(store, sno, limit, order)
            all == RowsOf(store, sno)
        IN  /\ Len(res) = Min(limit, Len(all))
            /\ InDirection(res, order)
            /\ MostRecentOf(res, all)

\* the instant a row was polled: what the collector's clock wrote, taken
\* back from the host's local time to UTC
PolledAt(r) == r.collection_time - offset

\* C5: after cleanup_old_data(d) at instant now the table holds exactly the
\* rows it held before that were polled not earlier than now - d days,
\* whatever the host's offset from UTC.
C5_RetentionKeepsExactlyRecent ==
    (last.op = "cleanup" /\ ~last.raised) =>
        store = SelectSeq(last.before,
                          LAMBDA r : PolledAt(r) >= utc - last.days * MinutesPerDay)

\* C22: cleanup_old_data is idempotent: a second call cleanup_old_data(d) at
\* the same instant, with no append in between, deletes zero rows and
\* leaves the table as the first call left it.
C22_CleanupIsIdempotent ==
    (last.op = "cleanup" /\ ~last.raised) =>
        LET again == cleanup_old_data(store, last.days, utc, TRUE)
        IN  /\ ~again.raised
            /\ Len(again.store) = Len(store)
            /\ again.store = store

\* C22 witness: a retention run has just deleted a row and kept another
C22_Witness ==
    /\ last.op = "cleanup" /\ ~last.raised
    /\ Len(store) < Len(last.before)
    /\ store # <<>>

----------------------------------------------------------------------------
(* Exact fractions <<n, d>>, d > 0, for the floats of prediction.py and    *)
(* rebalancing.py: a slope is a quotient of small integers, and the model  *)
(* computes with it exactly.                                               *)

RECURSIVE Gcd(_, _)
Gcd(a, b) == IF b = 0 THEN a ELSE Gcd(b, a % b)

\* the fraction n / d in lowest terms
Frac(n, d) ==
    LET m == IF d < 0 THEN 0 - n ELSE n
        e == IF d < 0 THEN 0 - d ELSE d
        g == Gcd(IF m < 0 THEN 0 - m ELSE m, e)
    IN  <<m \div g, e \div g>>
FromInt(n) == <<n, 1>>
FAdd(p, q) == Frac(p[1] * q[2] + q[1] * p[2], p[2] * q[2])
FSub(p, q) == Frac(p[1] * q[2] - q[1] * p[2], p[2] * q[2])
FTimes(p, k) == Frac(p[1] * k, p[2])
FOver(p, k) == Frac(p[1], p[2] * k)
FAbs(p) == IF p[1] < 0 THEN <<0 - p[1], p[2]>> ELSE p
FEq(p, q) == p[1] * q[2] = q[1] * p[2]
FLess(p, q) == p[1] * q[2] < q[1] * p[2]
FLeq(p, q) == p[1] * q[2] <= q[1] * p[2]
FMax(p, q) == IF FLess(p, q) THEN q ELSE p
FMin(p, q) == IF FLess(q, p) THEN q ELSE p

\* floor; \div rounds towards minus infinity for a positive divisor
Floor(p) == p[1] \div p[2]

\* int(x): towards zero
Truncate(p) == IF p[1] >= 0 THEN Floor(p) ELSE 0 - Floor(<<0 - p[1], p[2]>>)

\* round(x): to the nearest integer, a half to the even neighbour
Round(p) ==
    LET f == Floor(p)
        twice == 2 * (p[1] % p[2])
    IN  IF twice < p[2] THEN f
        ELSE IF twice > p[2] THEN f + 1
        ELSE IF f % 2 = 0 THEN f ELSE f + 1

RECURSIVE FSum(_)
FSum(qs) == IF qs = <<>> THEN FromInt(0) ELSE FAdd(FSum(Tail(qs)), Head(qs))

----------------------------------------------------------------------------
(* prediction.py *)

\* mutant: the query orders ASC, so LIMIT keeps the oldest rows
get_recent_points_oldest(st, station_id, max_points) ==
    Take(OrderByTimeAsc(RowsOf(st, station_id)), max_points)

\* SELECT ... WHERE sno = :sno ORDER BY collection_time DESC LIMIT :limit,
\* then sort_values("collection_time"): a stable sort of the rows as the
\* query returned them.  Every collection_time the collector wrote parses,
\* so dropna drops nothing.
get_recent_points(st, station_id, max_points) ==
    OrderByTimeAsc(Take(OrderByTimeDesc(RowsOf(st, station_id)), max_points))

\* dt_min of the last two rows of df
LastGap(df) == df[Len(df)].collection_time - df[Len(df) - 1].collection_time

\* the local slopes of consecutive rows, pairs with dt_min <= 0 skipped
RECURSIVE LocalSlopes(_)
LocalSlopes(df) ==
    IF Len(df) < 2 THEN <<>>
    ELSE IF LastGap(df) <= 0 THEN LocalSlopes(SubSeq(df, 1, Len(df) - 1))
    ELSE Append(LocalSlopes(SubSeq(df, 1, Len(df) - 1)),
                Frac(df[Len(df)].rent - df[Len(df) - 1].rent, LastGap(df)))

\* mutant: the local slopes are summed, not averaged
MeanSlopeSummed(slopes) == FSum(slopes)

\* slope = sum(slopes) / len(slopes) if slopes else 0.0
MeanSlope(slopes) ==
    IF slopes = <<>> THEN FromInt(0) ELSE FOver(FSum(slopes), Len(slopes))

\* what calculate_trend returns for the frame df of recent points, latest
\* being the answer of its ORDER BY collection_time DESC LIMIT 1 query
TrendOf(df, latest) ==
    IF Len(df) < 3
    THEN IF latest = <<>>
         THEN [slope |-> FromInt(0), current |-> 0, capacity |-> 0,
               points_used |-> 0]
         ELSE [slope |-> FromInt(0), current |-> latest[1].rent,
               capacity |-> latest[1].rent + latest[1].return_count,
               points_used |-> Len(df)]
    ELSE [slope |-> MeanSlope(LocalSlopes(df)),
          current |-> df[Len(df)].rent,
          capacity |-> df[Len(df)].rent + df[Len(df)].return_count,
          points_used |-> Len(df)]

calculate_trend(st, station_id, max_points) ==
    TrendOf(get_recent_points(st, station_id, max_points),
            Take(OrderByTimeDesc(RowsOf(st, station_id)), 1))

\* predicted = current_bikes + slope * minutes_ahead
Predicted(t, minutes_ahead) ==
    FAdd(FromInt(t.current), FTimes(t.slope, minutes_ahead))

\* what predict_demand returns for the trend t: the forecast, clamped to
\* [0, capacity] and rounded, with the model information
ForecastOf(t, minutes_ahead) ==
    [pred |-> Round(FMax(FromInt(0),
                         FMin(FromInt(t.capacity), Predicted(t, minutes_ahead)))),
     slope |-> t.slope, current |-> t.current, capacity |-> t.capacity,
     points_used |-> t.points_used]

\* mutant: the forecast is not clamped to [0, capacity]
predict_demand_unclamped(st, station_id, minutes_ahead, max_points) ==
    LET t == calculate_trend(st, station_id, max_points)
    IN  [pred |-> Round(Predicted(t, minutes_ahead)),
         slope |-> t.slope, current |-> t.current, capacity |-> t.capacity,
         points_used |-> t.points_used]

predict_demand(st, station_id, minutes_ahead, max_points) ==
    ForecastOf(calculate_trend(st, station_id, max_points), minutes_ahead)


----------------------------------------------------------------------------
(* rebalancing.py.  A ratio is given in hundredths (0.40 is 40); P holds   *)
(* the parameters minutes_ahead, max_points, empty_threshold,              *)
(* full_threshold, target_low_pct, target_high_pct, top_k.  info is what   *)
(* predict_demand returned for the station of the snapshot row.            *)

\* df["capacity"] = rent + return_count
Capacity(row) == row.rent + row.return_count

\* mutant: the product is rounded to the nearest integer
SupplyTargetRounded(capacity, target_low_pct) ==
    Max(2, Round(Frac(capacity * target_low_pct, 100)))

\* target = max(2, int(capacity * target_low_ratio))
SupplyTarget(capacity, target_low_pct) ==
    Max(2, Truncate(Frac(capacity * target_low_pct, 100)))

\* mutant: the product is rounded to the nearest integer
RemoveTargetRounded(capacity, target_high_pct) ==
    Max(0, Min(capacity - 2, Round(Frac(capacity * target_high_pct, 100))))

\* target = max(0, min(capacity - 2, int(capacity * target_high_ratio)))
RemoveTarget(capacity, target_high_pct) ==
    Max(0, Min(capacity - 2, Truncate(Frac(capacity * target_high_pct, 100))))

\* priority = 0.4 * abs(slope) + 0.6 * severity
Priority(slope, severity) ==
    FAdd(FOver(FTimes(FAbs(slope), 2), 5), FOver(FTimes(severity, 3), 5))

\* mutant: the forecast is taken as predict_demand gave it
PredictedBikesAsForecast(row, info) == info.pred

\* predicted_bikes = max(0, min(capacity, int(pred_bikes)))
PredictedBikes(row, info) == Max(0, Min(Capacity(row), info.pred))

\* mutant: a station is evaluated however few points its forecast used
EvaluatedAnyHistory(row, info) == Capacity(row) > 0

\* the station is neither filtered out (capacity <= 0) nor skipped
\* (points_used < 2)
Evaluated(row, info) == Capacity(row) > 0 /\ info.points_used >= 2

\* need_add = max(0, target - predicted_bikes)
NeedAdd(row, info, P) ==
    Max(0, SupplyTarget(Capacity(row), P.target_low_pct) - PredictedBikes(row, info))

\* need_remove = max(0, predicted_bikes - target)
NeedRemove(row, info, P) ==
    Max(0, PredictedBikes(row, info) - RemoveTarget(Capacity(row), P.target_high_pct))

\* severity = 1.0 - (predicted_bikes / capacity)
EmptySeverity(row, info) ==
    FSub(FromInt(1), Frac(PredictedBikes(row, info), Capacity(row)))

\* severity = 1.0 - (predicted_empty_slots / capacity)
FullSeverity(row, info) ==
    FSub(FromInt(1), Frac(Capacity(row) - PredictedBikes(row, info), Capacity(row)))

\* the dict appended to supply_rows
SupplyRow(row, info, P) ==
    [sno |-> row.sno, current_bikes |-> row.rent,
     predicted_bikes |-> PredictedBikes(row, info), capacity |-> Capacity(row),
     need_add |-> NeedAdd(row, info, P),
     slope |-> info.slope, severity |-> EmptySeverity(row, info),
     priority |-> Priority(info.slope, EmptySeverity(row, info)),
     forecast_horizon_min |-> P.minutes_ahead, points_used |-> info.points_used]

\* the dict appended to remove_rows
RemoveRow(row, info, P) ==
    [sno |-> row.sno, current_bikes |-> row.rent,
     predicted_bikes |-> PredictedBikes(row, info), capacity |-> Capacity(row),
     need_remove |-> NeedRemove(row, info, P),
     slope |-> info.slope, severity |-> FullSeverity(row, info),
     priority |-> Priority(info.slope, FullSeverity(row, info)),
     forecast_horizon_min |-> P.minutes_ahead, points_used |-> info.points_used]

\* mutant: the dict is appended whatever need_add is
AddsSupplyAnyNeed(row, info, P) ==
    /\ Evaluated(row, info)
    /\ PredictedBikes(row, info) <= P.empty_threshold

\* the empty-risk rule appends a dict for the row
AddsSupply(row, info, P) ==
    /\ Evaluated(row, info)
    /\ PredictedBikes(row, info) <= P.empty_threshold
    /\ NeedAdd(row, info, P) > 0

\* the full-risk rule appends a dict for the row
AddsRemove(row, info, P) ==
    /\ Evaluated(row, info)
    /\ Capacity(row) - PredictedBikes(row, info) <= P.full_threshold
    /\ NeedRemove(row, info, P) > 0

\* supply_rows after the loop over the snapshot, in the order of its rows
RECURSIVE SupplyRows(_, _, _)
SupplyRows(snapshot, st, P) ==
    IF snapshot = <<>> THEN <<>>
    ELSE IF AddsSupply(snapshot[Len(snapshot)],
                       predict_demand(st, snapshot[Len(snapshot)].sno,
                                      P.minutes_ahead, P.max_points), P)
    THEN Append(SupplyRows(SubSeq(snapshot, 1, Len(snapshot) - 1), st, P),
                SupplyRow(snapshot[Len(snapshot)],
                          predict_demand(st, snapshot[Len(snapshot)].sno,
                                         P.minutes_ahead, P.max_points), P))
    ELSE SupplyRows(SubSeq(snapshot, 1, Len(snapshot) - 1), st, P)

\* remove_rows after the loop
RECURSIVE RemoveRows(_, _, _)
RemoveRows(snapshot, st, P) ==
    IF snapshot = <<>> THEN <<>>
    ELSE IF AddsRemove(snapshot[Len(snapshot)],
                       predict_demand(st, snapshot[Len(snapshot)].sno,
                                      P.minutes_ahead, P.max_points), P)
    THEN Append(RemoveRows(SubSeq(snapshot, 1, Len(snapshot) - 1), st, P),
                RemoveRow(snapshot[Len(snapshot)],
                          predict_demand(st, snapshot[Len(snapshot)].sno,
                                         P.minutes_ahead, P.max_points), P))
    ELSE RemoveRows(SubSeq(snapshot, 1, Len(snapshot) - 1), st, P)

\* a comes before b in sort_values(["priority", key], ascending=[False, False])
RanksBefore(a, b, key) ==
    \/ FLess(b.priority, a.priority)
    \/ FEq(a.priority, b.priority) /\ a[key] > b[key]

\* the sort is stable: rows that rank alike keep the order they had
RECURSIVE InsertByRank(_, _, _)
InsertByRank(sorted, e, key) ==
    IF sorted = <<>> THEN <<e>>
    ELSE IF RanksBefore(e, sorted[Len(sorted)], key)
         THEN Append(InsertByRank(SubSeq(sorted, 1, Len(sorted) - 1), e, key),
                     sorted[Len(sorted)])
         ELSE Append(sorted, e)

RECURSIVE SortByRank(_, _)
SortByRank(rows, key) ==
    IF rows = <<>> THEN <<>>
    ELSE InsertByRank(SortByRank(SubSeq(rows, 1, Len(rows) - 1), key),
                      rows[Len(rows)], key)

compute_rebalance(snapshot, st, P) ==
    [need_supply |-> Take(SortByRank(SupplyRows(snapshot, st, P), "need_add"), P.top_k),
     need_remove |-> Take(SortByRank(RemoveRows(snapshot, st, P), "need_remove"), P.top_k)]


----------------------------------------------------------------------------
(* The advisor specification: the collector polls a feed of two stations   *)
(* minute by minute, every poll is saved, and compute_rebalance is run on  *)
(* the snapshot get_current_status gives.  Station A reports changing      *)
(* counts, a negative dock count among them; station B always reports an   *)
(* empty station of four docks.  A poll lists A and B, or A twice.  advice  *)
(* holds the parameters, the snapshot and the two lists of the run made at *)
(* the present state of the table; a second run at the same table leads to *)
(* a state the first run could have led to, so it is not taken.            *)

\* what station A reports: <<bikes, docks>>
AdvCounts == {<<0, 4>>, <<3, 4>>, <<3, 0 - 1>>}
AdvElems ==
    {[obj |-> TRUE, sno |-> "A", rent |-> RawInt(c[1]), ret |-> RawInt(c[2])] :
        c \in AdvCounts}
AdvOther == [obj |-> TRUE, sno |-> "B", rent |-> RawInt(0), ret |-> RawInt(4)]
\* the element a faulty feed lists twice
AdvTwice == [obj |-> TRUE, sno |-> "A", rent |-> RawInt(0), ret |-> RawInt(4)]
AdvFeeds == {<<AdvTwice, AdvTwice>>} \cup {<<a, AdvOther>> : a \in AdvElems}

Horizons == {0, MaxAhead}
PointsAsked == {2, 3}
LowPcts == {40, 90}
HighPcts == {60, 50}
EmptyThresholds == {1, 3}
TopKs == {1, 20}
AdvParams ==
    [minutes_ahead : Horizons, max_points : PointsAsked,
     empty_threshold : EmptyThresholds, full_threshold : {1},
     target_low_pct : LowPcts, target_high_pct : HighPcts, top_k : TopKs]

PollTimes(st) == {st[i].collection_time : i \in 1..Len(st)}

AdvInit ==
    /\ store = <<>>
    /\ utc = 0
    /\ offset = 0
    /\ last = Idle
    /\ advice = NoAdvice
    /\ pc = "off"
    /\ nextJob = 0
    /\ nextCleanup = 0

AdvTick ==
    /\ utc < MaxAdvMinutes
    /\ utc' = utc + 1
    /\ advice' = NoAdvice
    /\ UNCHANGED <<store, offset, last, sched>>

AdvPoll ==
    \E es \in AdvFeeds :
        /\ Cardinality(PollTimes(store)) < MaxPolls
        /\ \A t \in PollTimes(store) : t < utc + offset
        /\ store' = job(store, JsonArray(es), utc + offset, TRUE).store
        /\ advice' = NoAdvice
        /\ UNCHANGED <<utc, offset, last, sched>>

Advise ==
    \E P \in AdvParams :
        /\ ~advice.ran
        /\ advice' = [ran |-> TRUE, P |-> P,
                      snapshot |-> get_current_status(store),
                      out |-> compute_rebalance(get_current_status(store), store, P)]
        /\ UNCHANGED <<store, utc, offset, last, sched>>

AdvNext == AdvTick \/ AdvPoll \/ Advise

AdvisorSpec == AdvInit /\ [][AdvNext]_vars


----------------------------------------------------------------------------
(* Forecast and advice claims, stated on the advisory run just made: its   *)
(* parameters advice.P, the table it read (store) and its lists advice.out.*)

\* the rows get_current_status holds for the station: its latest rows
LatestRows(st, sno) == Range(RowsOf(get_current_status(st), sno))

\* what predict_demand would return for the station in the run just made
Forecast(sno) ==
    predict_demand(store, sno, advice.P.minutes_ahead, advice.P.max_points)

\* the station's max_points most recent rows, as the trend estimate reads them
History(sno) == get_recent_points(store, sno, advice.P.max_points)

\* current + slope * minutes_ahead, before any clamping
Extrapolated(sno) ==
    FAdd(FromInt(Forecast(sno).current),
         FTimes(Forecast(sno).slope, advice.P.minutes_ahead))

\* C7: for every station whose capacity (bikes + docks of its latest row) is
\* positive, every history and every horizon, the forecast predict_demand
\* returns lies between 0 and that capacity.
C7_ForecastWithinCapacity ==
    advice.ran =>
        \A sno \in StationsIn(store) :
            /\ \E r \in LatestRows(store, sno) :
                   Forecast(sno).capacity = r.rent + r.return_count
            /\ Forecast(sno).capacity > 0 =>
                   /\ 0 <= Forecast(sno).pred
                   /\ Forecast(sno).pred <= Forecast(sno).capacity

\* a station of positive capacity whose trend, followed for the horizon,
\* leads below zero: the clamp is what keeps the forecast in range
C7_Witness ==
    /\ advice.ran
    /\ \E sno \in StationsIn(store) :
           /\ Forecast(sno).capacity > 0
           /\ Forecast(sno).points_used >= 3
           /\ FLess(Extrapolated(sno), FromInt(0))
           /\ Forecast(sno).pred = 0

\* C8: with fewer than 3 usable points among the max_points most recent rows
\* of a station, calculate_trend returns slope 0, the bikes of the latest row
\* as current and the number of usable points as points_used, and
\* predict_demand returns that current count whatever the horizon.
C8_ShortHistoryForecastsCurrent ==
    advice.ran =>
        \A sno \in StationsIn(store) :
            LET t == calculate_trend(store, sno, advice.P.max_points)
            IN  Len(History(sno)) < 3 =>
                    /\ FEq(t.slope, FromInt(0))
                    /\ \E r \in LatestRows(store, sno) : t.current = r.rent
                    /\ t.points_used = Len(History(sno))
                    /\ Forecast(sno).pred = t.current

\* the sum of the local slopes of the pairs (i - 1, i), i in Q
RECURSIVE SumOfLocalSlopes(_, _)
SumOfLocalSlopes(df, Q) ==
    IF Q = {} THEN FromInt(0)
    ELSE LET i == CHOOSE j \in Q : TRUE
         IN  FAdd(Frac(df[i].rent - df[i - 1].rent,
                       df[i].collection_time - df[i - 1].collection_time),
                  SumOfLocalSlopes(df, Q \ {i}))

\* the consecutive pairs of df that lie a positive time apart
PairsApart(df) ==
    {i \in 2..Len(df) : df[i].collection_time > df[i - 1].collection_time}

\* s is the arithmetic mean of the local slopes of df, 0 when no pair counts
IsMeanSlope(s, df) ==
    IF PairsApart(df) = {} THEN FEq(s, FromInt(0))
    ELSE FEq(FTimes(s, Cardinality(PairsApart(df))),
             SumOfLocalSlopes(df, PairsApart(df)))

\* bikes 5, 6, 7, 8 of one station, read one minute apart
RisingSeries ==
    [i \in 1..4 |-> [collection_time |-> i - 1, sno |-> "A", rent |-> 4 + i,
                     return_count |-> 6 - i]]

\* C9: with at least 3 usable points, the history is the max_points most
\* recent rows of the station oldest first, and the slope calculate_trend
\* returns is the arithmetic mean of (bikes[i] - bikes[i-1]) / dt over exactly
\* the consecutive pairs with dt > 0, 0 when there is none; the series
\* 5, 6, 7, 8 at one-minute spacing gives slope 1.
C9_SlopeIsMeanOfLocalSlopes ==
    /\ FEq(calculate_trend(RisingSeries, "A", 4).slope, FromInt(1))
    /\ advice.ran =>
        \A sno \in StationsIn(store) :
            LET df == History(sno)
                all == RowsOf(store, sno)
            IN  Len(df) >= 3 =>
                    /\ Len(df) = Min(advice.P.max_points, Len(all))
                    /\ InDirection(df, "asc")
                    /\ MostRecentOf(df, all)
                    /\ IsMeanSlope(calculate_trend(store, sno, advice.P.max_points).slope, df)
                    /\ calculate_trend(store, sno, advice.P.max_points).points_used = Len(df)

\* a history of three points with one pair read at the same instant, one
\* pair apart in time and a slope that is not zero, while the station has
\* older rows the history leaves out
C9_Witness ==
    /\ advice.ran
    /\ \E sno \in StationsIn(store) :
           /\ Len(History(sno)) >= 3
           /\ Len(RowsOf(store, sno)) > Len(History(sno))
           /\ PairsApart(History(sno)) # {}
           /\ Cardinality(PairsApart(History(sno))) < Len(History(sno)) - 1
           /\ ~FEq(Forecast(sno).slope, FromInt(0))

\* the snapshot rows of the run that compute_rebalance evaluated and
\* forecast at or below empty_threshold
AtEmptyRisk ==
    {i \in 1..Len(advice.snapshot) :
        /\ Evaluated(advice.snapshot[i], Forecast(advice.snapshot[i].sno))
        /\ PredictedBikes(advice.snapshot[i], Forecast(advice.snapshot[i].sno))
               <= advice.P.empty_threshold}

\* what the run lists for the station on the empty-risk list
SupplyEntries(sno) ==
    {e \in Range(advice.out.need_supply) : e.sno = sno}

\* C10 as stated: for every evaluated station forecast at or below
\* empty_threshold, need_add = max(0, max(2, round(capacity * target_low_ratio))
\* - predicted), round to the nearest integer, and the station is on the
\* empty-risk list with that need_add whenever it is positive.
C10_NeedAddUsesRoundedTarget ==
    advice.ran =>
        \A i \in AtEmptyRisk :
            LET row == advice.snapshot[i]
                capacity == row.rent + row.return_count
                target == Max(2, Round(Frac(capacity * advice.P.target_low_pct, 100)))
                need == Max(0, target - PredictedBikes(row, Forecast(row.sno)))
            IN  /\ \A e \in SupplyEntries(row.sno) : e.need_add = need
                /\ need > 0 => SupplyEntries(row.sno) # {}

\* C10, amended: the target is max(2, int(capacity * target_low_ratio)), the
\* product cut towards zero, need_add = max(0, target - predicted), and a
\* station with need_add > 0 is on the empty-risk list with that need_add
\* unless the list already holds top_k entries.
C10_NeedAddUsesTruncatedTarget ==
    advice.ran =>
        \A i \in AtEmptyRisk :
            LET row == advice.snapshot[i]
                capacity == row.rent + row.return_count
                target == Max(2, (capacity * advice.P.target_low_pct) \div 100)
                need == Max(0, target - PredictedBikes(row, Forecast(row.sno)))
            IN  /\ \A e \in SupplyEntries(row.sno) : e.need_add = need
                /\ need > 0 =>
                       \/ SupplyEntries(row.sno) # {}
                       \/ Len(advice.out.need_supply) = advice.P.top_k

\* a listed station whose capacity * target_low_ratio rounds up to a target
\* above 2 that cutting does not reach
C10_Witness ==
    /\ advice.ran
    /\ \E i \in AtEmptyRisk :
           LET row == advice.snapshot[i]
               product == Frac((row.rent + row.return_count) * advice.P.target_low_pct, 100)
           IN  /\ Truncate(product) >= 2
               /\ Round(product) > Truncate(product)
               /\ \E e \in SupplyEntries(row.sno) : e.need_add > 0


\* the snapshot rows of the run that compute_rebalance evaluated and whose
\* forecast leaves at most full_threshold empty docks
AtFullRisk ==
    {i \in 1..Len(advice.snapshot) :
        /\ Evaluated(advice.snapshot[i], Forecast(advice.snapshot[i].sno))
        /\ Capacity(advice.snapshot[i])
               - PredictedBikes(advice.snapshot[i], Forecast(advice.snapshot[i].sno))
               <= advice.P.full_threshold}

\* what the run lists for the station on the full-risk list
RemoveEntries(sno) ==
    {e \in Range(advice.out.need_remove) : e.sno = sno}

\* C11 as stated: for every evaluated station whose forecast leaves at most
\* full_threshold empty docks, need_remove = max(0, predicted -
\* clamp(round(capacity * target_high_ratio), 0, capacity - 2)), round to the
\* nearest integer, and the station is on the full-risk list with that
\* need_remove whenever it is positive.
C11_NeedRemoveUsesRoundedTarget ==
    advice.ran =>
        \A i \in AtFullRisk :
            LET row == advice.snapshot[i]
                capacity == row.rent + row.return_count
                rounded == Round(Frac(capacity * advice.P.target_high_pct, 100))
                target == Max(0, Min(capacity - 2, rounded))
                need == Max(0, PredictedBikes(row, Forecast(row.sno)) - target)
            IN  /\ \A e \in RemoveEntries(row.sno) : e.need_remove = need
                /\ need > 0 => RemoveEntries(row.sno) # {}

\* C11, amended: the target is clamp(int(capacity * target_high_ratio), 0,
\* capacity - 2), the product cut towards zero, need_remove = max(0,
\* predicted - target), and a station with need_remove > 0 is on the
\* full-risk list with that need_remove unless the list already holds top_k
\* entries.
C11_NeedRemoveUsesTruncatedTarget ==
    advice.ran =>
        \A i \in AtFullRisk :
            LET row == advice.snapshot[i]
                capacity == row.rent + row.return_count
                cut == (capacity * advice.P.target_high_pct) \div 100
                target == Max(0, Min(capacity - 2, cut))
                need == Max(0, PredictedBikes(row, Forecast(row.sno)) - target)
            IN  /\ \A e \in RemoveEntries(row.sno) : e.need_remove = need
                /\ need > 0 =>
                       \/ RemoveEntries(row.sno) # {}
                       \/ Len(advice.out.need_remove) = advice.P.top_k

\* a listed station whose capacity * target_high_ratio rounds up to a target
\* that neither bound of the clamp hides
C11_Witness ==
    /\ advice.ran
    /\ \E i \in AtFullRisk :
           LET row == advice.snapshot[i]
               product == Frac((row.rent + row.return_count) * advice.P.target_high_pct, 100)
           IN  /\ Round(product) > Truncate(product)
               /\ Round(product) <= row.rent + row.return_count - 2
               /\ \E e \in RemoveEntries(row.sno) : e.need_remove > 0


\* C12: whatever the snapshot, the table and the parameters, every entry of
\* the empty-risk list has need_add > 0 and every entry of the full-risk
\* list has need_remove > 0.
C12_ListedNeedsArePositive ==
    advice.ran =>
        /\ \A e \in Range(advice.out.need_supply) : e.need_add > 0
        /\ \A e \in Range(advice.out.need_remove) : e.need_remove > 0

\* a station at empty risk that already holds its target is left out of a
\* run that has something on both lists
C12_Witness ==
    /\ advice.ran
    /\ advice.out.need_supply # <<>>
    /\ advice.out.need_remove # <<>>
    /\ \E i \in AtEmptyRisk :
           /\ NeedAdd(advice.snapshot[i], Forecast(advice.snapshot[i].sno), advice.P) = 0
           /\ SupplyEntries(advice.snapshot[i].sno) = {}


\* the place of a station_id in ascending order
StationRank(sno) == IF sno = "A" THEN 1 ELSE 2

\* a may stand before b: priority descending, then need descending, then
\* station_id ascending
InClaimedOrder(a, b, key) ==
    \/ FLess(b.priority, a.priority)
    \/ FEq(a.priority, b.priority) /\ a[key] > b[key]
    \/ /\ FEq(a.priority, b.priority)
       /\ a[key] = b[key]
       /\ StationRank(a.sno) <= StationRank(b.sno)

\* the list is in the claimed order and holds at most top_k entries
OrderedAndCut(list, key) ==
    /\ Len(list) <= advice.P.top_k
    /\ \A i \in 1..(Len(list) - 1) : InClaimedOrder(list[i], list[i + 1], key)

\* C13: each list compute_rebalance returns is the first top_k of the
\* qualifying recommendations ordered by priority descending, then need
\* descending, then station_id ascending: entries of equal priority and need
\* come in ascending station_id order whatever the snapshot order, a
\* recommendation left out ranks no higher than the last one listed, and no
\* list is longer than top_k.
C13_ListsOrderedWithStationTieBreak ==
    advice.ran =>
        /\ OrderedAndCut(advice.out.need_supply, "need_add")
        /\ OrderedAndCut(advice.out.need_remove, "need_remove")
        /\ \A i \in AtEmptyRisk :
               LET row == advice.snapshot[i]
                   left == SupplyRow(row, Forecast(row.sno), advice.P)
                   list == advice.out.need_supply
               IN  (left.need_add > 0 /\ SupplyEntries(row.sno) = {}) =>
                       /\ Len(list) = advice.P.top_k
                       /\ InClaimedOrder(list[Len(list)], left, "need_add")
        /\ \A i \in AtFullRisk :
               LET row == advice.snapshot[i]
                   left == RemoveRow(row, Forecast(row.sno), advice.P)
                   list == advice.out.need_remove
               IN  (left.need_remove > 0 /\ RemoveEntries(row.sno) = {}) =>
                       /\ Len(list) = advice.P.top_k
                       /\ InClaimedOrder(list[Len(list)], left, "need_remove")


\* the station of the row is listed for supply, or the list is full
SupplyListedOrCut(row) ==
    \/ SupplyEntries(row.sno) # {}
    \/ Len(advice.out.need_supply) = advice.P.top_k

\* the station of the row is listed for removal, or the list is full
RemoveListedOrCut(row) ==
    \/ RemoveEntries(row.sno) # {}
    \/ Len(advice.out.need_remove) = advice.P.top_k

\* C15: compute_rebalance lists no station whose forecast reports
\* points_used < 2, on either list; a station of positive capacity with
\* points_used >= 2 is put to both risk rules, and with exactly 2 usable
\* points it is evaluated with slope 0.
C15_SkipsOnlyBelowTwoPoints ==
    advice.ran =>
        \A i \in 1..Len(advice.snapshot) :
            LET row == advice.snapshot[i]
                info == Forecast(row.sno)
                capacity == row.rent + row.return_count
                predicted == Max(0, Min(capacity, info.pred))
                low == Max(2, (capacity * advice.P.target_low_pct) \div 100)
                high == Max(0, Min(capacity - 2,
                                   (capacity * advice.P.target_high_pct) \div 100))
            IN  /\ info.points_used < 2 =>
                       SupplyEntries(row.sno) = {} /\ RemoveEntries(row.sno) = {}
                /\ (info.points_used >= 2 /\ capacity > 0) =>
                       /\ (predicted <= advice.P.empty_threshold /\ low > predicted)
                              => SupplyListedOrCut(row)
                       /\ (capacity - predicted <= advice.P.full_threshold
                              /\ predicted > high)
                              => RemoveListedOrCut(row)
                /\ info.points_used = 2 =>
                       /\ FEq(info.slope, FromInt(0))
                       /\ \A e \in SupplyEntries(row.sno) \cup RemoveEntries(row.sno) :
                              FEq(e.slope, FromInt(0)) /\ e.points_used = 2

\* one station at empty risk is skipped with a single point while another
\* is listed on exactly two points
C15_Witness ==
    /\ advice.ran
    /\ \E i \in 1..Len(advice.snapshot) :
           /\ Forecast(advice.snapshot[i].sno).points_used = 1
           /\ advice.snapshot[i].rent <= advice.P.empty_threshold
           /\ Capacity(advice.snapshot[i]) > 0
    /\ \E e \in Range(advice.out.need_supply) : e.points_used = 2


----------------------------------------------------------------------------
(* The scenario specification: station A has ten docks and loses two bikes *)
(* a minute; its polls report 8, 6 and 4 bikes in turn.  A poll lists A    *)
(* alone or with the empty station B, polls may be missed, and             *)
(* compute_rebalance is run with the default thresholds and ratios.        *)

ScenarioBikes == <<8, 6, 4>>
ScenarioDocks == <<2, 4, 6>>

\* what A reports in the poll after k saved polls
ScenElem(k) ==
    [obj |-> TRUE, sno |-> "A", rent |-> RawInt(ScenarioBikes[k + 1]),
     ret |-> RawInt(ScenarioDocks[k + 1])]

ScenFeeds(k) == {<<ScenElem(k)>>, <<ScenElem(k), AdvOther>>}

ScenParams ==
    [minutes_ahead : {0, 5}, max_points : {2, 30},
     empty_threshold : {1}, full_threshold : {1},
     target_low_pct : {40}, target_high_pct : {60}, top_k : {1, 20}]

ScenInit == AdvInit

ScenTick ==
    /\ utc < MaxScenMinutes
    /\ utc' = utc + 1
    /\ advice' = NoAdvice
    /\ UNCHANGED <<store, offset, last, sched>>

ScenPoll ==
    /\ Cardinality(PollTimes(store)) < Len(ScenarioBikes)
    /\ \E es \in ScenFeeds(Cardinality(PollTimes(store))) :
        /\ \A t \in PollTimes(store) : t < utc + offset
        /\ store' = job(store, JsonArray(es), utc + offset, TRUE).store
        /\ advice' = NoAdvice
        /\ UNCHANGED <<utc, offset, last, sched>>

ScenAdvise ==
    \E P \in ScenParams :
        /\ ~advice.ran
        /\ advice' = [ran |-> TRUE, P |-> P,
                      snapshot |-> get_current_status(store),
                      out |-> compute_rebalance(get_current_status(store), store, P)]
        /\ UNCHANGED <<store, utc, offset, last, sched>>

ScenNext == ScenTick \/ ScenPoll \/ ScenAdvise

ScenarioSpec == ScenInit /\ [][ScenNext]_vars

\* the history of A is 8, 6, 4 bikes of ten docks at minutes 0, 1, 2, and
\* the run just made looks 5 minutes ahead over the whole history
ScenarioRun ==
    /\ advice.ran
    /\ advice.P.minutes_ahead = 5
    /\ advice.P.max_points = 30
    /\ RowsOf(store, "A") =
           [i \in 1..3 |-> [collection_time |-> i - 1, sno |-> "A",
                            rent |-> ScenarioBikes[i],
                            return_count |-> 10 - ScenarioBikes[i]]]

\* C14: with capacity 10 and bikes 8, 6, 4 at minutes 0, 1, 2,
\* calculate_trend gives slope -2 per minute, predict_demand 5 minutes ahead
\* gives 0, and compute_rebalance with empty_threshold 1 and target_low_ratio
\* 0.4 lists the station on the empty-risk list with need_add 4.
C14_ScenarioNeedsFourBikes ==
    ScenarioRun =>
        /\ calculate_trend(store, "A", 30).slope = <<0 - 2, 1>>
        /\ predict_demand(store, "A", 5, 30).pred = 0
        /\ \E e \in Range(advice.out.need_supply) :
               /\ e.sno = "A"
               /\ e.capacity = 10
               /\ e.predicted_bikes = 0
               /\ e.need_add = 4

\* the scenario has been played to its end and the advice computed, with
\* station B competing for the one place of the list
C14_Witness ==
    /\ ScenarioRun
    /\ advice.P.top_k = 1
    /\ Len(advice.snapshot) = 2


----------------------------------------------------------------------------
(* The retry specification: session.get under the Retry policy mounted by  *)
(* _build_session.  script is what the server does at the first, second,   *)
(* ... attempt of one request: no answer within the timeout, a 503 (on the *)
(* status_forcelist), a 404 (not on it), or a 200 with one station.  The   *)
(* adapter counts total down at each failed attempt and gives up when it   *)
(* falls below zero: on a timeout it raises, on a listed status it hands   *)
(* back the last response (raise_on_status=False).                         *)

RetryTotal == 3

Outcomes == {"timeout", "503", "404", "200"}
Transient == {"timeout", "503"}
Scripts == [1..MaxScript -> Outcomes]

\* the response an answered attempt hands to fetch_data
ResponseOf(outcome) ==
    IF outcome = "200" THEN JsonArray(<<AdvOther>>)
    ELSE IF outcome = "404" THEN BadStatus(404)
    ELSE BadStatus(503)

\* mutant: the adapter gives up one attempt later
ExhaustedLate(total) == total < 0 - 1

\* Retry.is_exhausted
Exhausted(total) == total < 0

\* the attempts from the i-th on, with total retries left; returns what
\* session.get hands over and the number of attempts made
RECURSIVE Attempts(_, _, _)
Attempts(script, i, total) ==
    IF script[i] \notin Transient
    THEN [resp |-> ResponseOf(script[i]), attempts |-> i]
    ELSE IF Exhausted(total - 1) \/ i = Len(script)
    THEN [resp |-> IF script[i] = "timeout" THEN TransportError
                   ELSE ResponseOf(script[i]),
          attempts |-> i]
    ELSE Attempts(script, i + 1, total - 1)

session_get(script) == Attempts(script, 1, RetryTotal)

\* last after a poll cycle whose request went as session.get reports
PolledWith(got, script, st, now) ==
    [op |-> "job", resp |-> got.resp,
     fetch |-> job(st, got.resp, now, TRUE).fetch.tag,
     raised |-> job(st, got.resp, now, TRUE).raised,
     before |-> st, batch |-> <<>>, days |-> 0,
     attempts |-> got.attempts, script |-> script]

RetryInit == AdvInit

RetryTick ==
    /\ utc < MaxAdvMinutes
    /\ utc' = utc + 1
    /\ last' = Idle
    /\ UNCHANGED <<store, offset, advice, sched>>

RetryPoll ==
    \E script \in Scripts :
        /\ Len(store) < MaxRows
        \* one poll a minute
        /\ last.op = "none"
        /\ \A t \in PollTimes(store) : t < utc + offset
        /\ store' = job(store, session_get(script).resp, utc + offset, TRUE).store
        /\ last' = PolledWith(session_get(script), script, store, utc + offset)
        /\ UNCHANGED <<utc, offset, advice, sched>>

RetryNext == RetryTick \/ RetryPoll

RetrySpec == RetryInit /\ [][RetryNext]_vars

\* every attempt the poll just made failed transiently
AllAttemptsTransient ==
    /\ last.op = "job"
    /\ \A i \in 1..last.attempts : last.script[i] \in Transient

\* C16 as stated: when every attempt of a poll fails transiently, the
\* collector makes at most 3 attempts in total and ends the poll with the
\* no-data result.
C16_AtMostThreeAttempts ==
    AllAttemptsTransient =>
        /\ last.attempts <= 3
        /\ last.fetch = "none"
        /\ store = last.before

\* C16, amended: when every attempt of a poll fails transiently, the
\* collector makes at most 4 attempts in total, the first one and 3 retries,
\* and ends the poll with the no-data result, the table unchanged.
C16_AtMostThreeRetries ==
    AllAttemptsTransient =>
        /\ last.attempts <= 1 + 3
        /\ last.fetch = "none"
        /\ ~last.raised
        /\ store = last.before

\* a poll whose request failed four times, by timeout and by status, while
\* the server would have failed once more
C16_Witness ==
    /\ AllAttemptsTransient
    /\ last.attempts = 4
    /\ last.script[5] \in Transient
    /\ \E i, j \in 1..4 : last.script[i] = "timeout" /\ last.script[j] = "503"


----------------------------------------------------------------------------
(* collector.py 92-125: the normalisation of one feed element.  Next to a  *)
(* count, the feed gives a latitude and a longitude: a number (k = "num"), *)
(* null (k = "null") or something float() rejects (k = "bad").  A null     *)
(* count makes int() raise; a null coordinate is replaced by 0 before      *)
(* float() sees it ("or 0").  Coordinates are whole degrees here.          *)

RawNull == [k |-> "null", v |-> 0]
RawNum(n) == [k |-> "num", v |-> n]

\* s.get(key, 0) or 0
OrZero(raw) == IF raw.k = "num" THEN raw.v ELSE 0

\* lines 105-109: both coordinates are parsed in one try, and the except
\* clause sets both to 0.0
Coordinates(s) ==
    IF s.lat.k = "bad" \/ s.lng.k = "bad"
    THEN [lat |-> 0, lng |-> 0]
    ELSE [lat |-> OrZero(s.lat), lng |-> OrZero(s.lng)]

\* the records of the frame with their coordinates
Normalized(resp, now) ==
    LET df == fetch_data(resp, now)
    IN  [i \in 1..Len(df.rows) |->
            [sno |-> df.rows[i].sno, rent |-> df.rows[i].rent,
             return |-> df.rows[i].return,
             lat |-> Coordinates(resp.elems[i]).lat,
             lng |-> Coordinates(resp.elems[i]).lng]]

\* a null element of the array
NullElement ==
    [obj |-> FALSE, sno |-> "", rent |-> RawNull, ret |-> RawNull,
     lat |-> RawNull, lng |-> RawNull]

\* a station object whose fields are all null; sno "" stands for NULL
NullFields ==
    [obj |-> TRUE, sno |-> "", rent |-> RawNull, ret |-> RawNull,
     lat |-> RawNull, lng |-> RawNull]

FeedRents == {RawInt(3), RawInt(0 - 1), RawBad}
FeedRets == {RawInt(4), RawBad}
FeedLats == {RawNum(25), RawBad}
FeedLngs == {RawNum(121), RawBad}

FeedObjects ==
    [obj : {TRUE}, sno : {"A"}, rent : FeedRents, ret : FeedRets,
     lat : FeedLats, lng : FeedLngs]

FeedElems == FeedObjects \cup {NullFields, NullElement}

(* The feed specification: collector_runner.py polls once a minute, the    *)
(* feed answering 200 with an array of any of these elements.              *)

FeedInit == AdvInit

FeedTick ==
    /\ utc < MaxFeedMinutes
    /\ utc' = utc + 1
    /\ last' = Idle
    /\ UNCHANGED <<store, offset, advice, sched>>

FeedPoll ==
    \E es \in SeqsUpTo(FeedElems, MaxBatch) :
        /\ last.op = "none"
        /\ Len(store) + Len(es) <= MaxRows
        /\ store' = job(store, JsonArray(es), utc + offset, TRUE).store
        /\ last' = [op |-> "job", resp |-> JsonArray(es),
                    fetch |-> job(store, JsonArray(es), utc + offset, TRUE).fetch.tag,
                    raised |-> job(store, JsonArray(es), utc + offset, TRUE).raised,
                    before |-> store,
                    batch |-> Normalized(JsonArray(es), utc + offset), days |-> 0]
        /\ UNCHANGED <<utc, offset, advice, sched>>

FeedNext == FeedTick \/ FeedPoll

FeedSpec == FeedInit /\ [][FeedNext]_vars

\* the poll just made got an array with nothing but nulls in it: no
\* element, null elements, or objects whose fields are all null
NullBatch ==
    /\ last.op = "job"
    /\ \A i \in 1..Len(last.resp.elems) :
          last.resp.elems[i] \in {NullElement, NullFields}

\* C17: a poll cycle whose feed response is an empty array, or an array
\* whose records are all null or carry only null fields, leaves the table
\* unchanged and ends without an error.
C17_NullBatchNotPersisted ==
    NullBatch => (store = last.before /\ ~last.raised)

\* what the claim gives for a count and for a coordinate
ClaimedCount(raw) == IF raw.k = "int" THEN raw.v ELSE 0
ClaimedCoordinate(raw) == IF raw.k = "num" THEN raw.v ELSE 0

\* C18: for every feed array of station objects, fetch_data yields exactly
\* one record per element, and each field of each record is fixed by that
\* field's own feed value alone: a count is the feed value when that is an
\* integer and 0 otherwise, a coordinate is the feed value when that is a
\* number and 0.0 otherwise.
C18_FieldsNormalizedIndependently ==
    (last.op = "job" /\ IsStationArray(last.resp) /\ last.resp.elems # <<>>) =>
        /\ last.fetch = "df"
        /\ Len(last.batch) = Len(last.resp.elems)
        /\ \A i \in 1..Len(last.batch) :
              /\ last.batch[i].rent = ClaimedCount(last.resp.elems[i].rent)
              /\ last.batch[i].return = ClaimedCount(last.resp.elems[i].ret)
              /\ last.batch[i].lat = ClaimedCoordinate(last.resp.elems[i].lat)
              /\ last.batch[i].lng = ClaimedCoordinate(last.resp.elems[i].lng)

\* C19: after any polls over any feed contents, every row of the table has
\* pickup_count >= 0 and dock_count >= 0, hence capacity >= 0.
C19_StoredCountsNonNegative ==
    \A i \in 1..Len(store) :
        /\ store[i].rent >= 0
        /\ store[i].return_count >= 0
        /\ store[i].rent + store[i].return_count >= 0


----------------------------------------------------------------------------
(* analysis.py: find_high_risk_stations.  config.py gives the thresholds.  *)

RISK_THRESHOLD_EMPTY == 1
RISK_THRESHOLD_FULL == 1

\* mutant: a row already taken as empty-risk is not looked at again
find_high_risk_stations_exclusive(df) ==
    [empty_risk |-> SelectSeq(df, LAMBDA r : r.rent <= RISK_THRESHOLD_EMPTY),
     full_risk |-> SelectSeq(df, LAMBDA r : /\ r.return_count <= RISK_THRESHOLD_FULL
                                            /\ ~(r.rent <= RISK_THRESHOLD_EMPTY))]

\* df[df['rent'] <= RISK_THRESHOLD_EMPTY], df[df['return_count'] <= ...];
\* an empty frame gives two empty frames
find_high_risk_stations(df) ==
    IF df = <<>> THEN [empty_risk |-> <<>>, full_risk |-> <<>>]
    ELSE [empty_risk |-> SelectSeq(df, LAMBDA r : r.rent <= RISK_THRESHOLD_EMPTY),
          full_risk |-> SelectSeq(df, LAMBDA r : r.return_count <= RISK_THRESHOLD_FULL)]

----------------------------------------------------------------------------
(* The operations specification: the collector, the retention run, the     *)
(* readers (history query, latest snapshot with its risk report) and one   *)
(* advisory run work on the same table, each statement atomic, in any      *)
(* order.  compute_rebalance is taken statement by statement: the snapshot *)
(* was read before it is called; for each row of positive capacity it      *)
(* calls predict_demand, whose calculate_trend reads the recent points     *)
(* and, when there are fewer than three, the latest row in a second        *)
(* SELECT.  Either read may raise; compute_rebalance catches that and goes *)
(* on with the next row.  Polls and retention runs may come between any    *)
(* two reads.  advice holds the run: its parameters P, the rows it loops   *)
(* over, the index i of the row at hand, the points read for it, the       *)
(* indices whose forecast failed, the lists so far, whether the table      *)
(* changed during the run, and the answer out.  A behaviour holds one run  *)
(* and ends when it has returned; the readers, which change nothing the    *)
(* run sees, are taken before it starts.                                   *)

\* station A with one dock and no bike, and with three bikes and four docks
OpsSmall == [obj |-> TRUE, sno |-> "A", rent |-> RawInt(0), ret |-> RawInt(1)]
OpsLarge == [obj |-> TRUE, sno |-> "A", rent |-> RawInt(3), ret |-> RawInt(4)]
\* what the feed lists at the minute now: A is small in the first minute
\* and large from then on, B never changes
OpsFeed(now) ==
    IF now = 0 THEN <<OpsSmall, AdvOther>> ELSE <<OpsLarge, AdvOther>>

OpsParams ==
    [minutes_ahead : {MaxAhead}, max_points : {3}, empty_threshold : {1},
     full_threshold : {1}, target_low_pct : {40}, target_high_pct : {60},
     top_k : {1, 20}]

OpsIdle == [op |-> "none", fetch |-> "none", raised |-> FALSE,
            before |-> <<>>, batch |-> <<>>, days |-> 0, answer |-> <<>>]

OpsInit ==
    /\ store = <<>>
    /\ utc = 0
    /\ offset = 0
    /\ last = OpsIdle
    /\ advice = NoAdvice
    /\ pc = "off"
    /\ nextJob = 0
    /\ nextCleanup = 0

Running == advice.ran /\ advice.phase # "done"

Ended == advice.ran /\ advice.phase = "done"

\* the advisory run, marked when the table changes under it
Told(changed) ==
    IF Running /\ changed THEN [advice EXCEPT !.changed = TRUE] ELSE advice

OpsTick ==
    /\ ~Ended
    /\ utc < MaxOpsMinutes
    /\ utc' = utc + 1
    /\ last' = OpsIdle
    /\ UNCHANGED <<store, offset, advice, sched>>

\* job(): one poll, saved; the clock may still read the minute of the last
OpsPoll ==
    /\ ~Ended
    /\ Len(store) + Len(OpsFeed(utc)) <= MaxOpsRows
    /\ store' = job(store, JsonArray(OpsFeed(utc)), utc + offset, TRUE).store
    /\ last' = [OpsIdle EXCEPT
                  !.op = "job",
                  !.fetch = job(store, JsonArray(OpsFeed(utc)), utc + offset, TRUE).fetch.tag,
                  !.before = store,
                  !.batch = job(store, JsonArray(OpsFeed(utc)), utc + offset, TRUE).fetch.rows]
    /\ advice' = Told(TRUE)
    /\ UNCHANGED <<utc, offset, sched>>

\* cleanup_old_data(0): everything older than the present minute goes
OpsRetention ==
    /\ ~Ended
    /\ store' = cleanup_old_data(store, 0, utc, TRUE).store
    /\ last' = [OpsIdle EXCEPT !.op = "cleanup"]
    /\ advice' = Told(store' # store)
    /\ UNCHANGED <<utc, offset, sched>>

\* get_station_timeseries(sno, limit, "desc")
OpsHistory ==
    \E sno \in Stations :
        /\ ~advice.ran
        /\ last' = [OpsIdle EXCEPT
                      !.op = "history",
                      !.answer = get_station_timeseries(store, sno, MaxLimit, "desc")]
        /\ UNCHANGED <<store, utc, offset, advice, sched>>

\* dashboard.py 153-154: get_current_status(), find_high_risk_stations(df)
OpsReport ==
    /\ ~advice.ran
    /\ last' = [OpsIdle EXCEPT
                  !.op = "report",
                  !.batch = get_current_status(store),
                  !.answer = find_high_risk_stations(get_current_status(store))]
    /\ UNCHANGED <<store, utc, offset, advice, sched>>

\* rebalancing.py 41-51: the rows of positive capacity, two empty lists
AdviseStart ==
    \E P \in OpsParams :
        /\ ~advice.ran
        /\ advice' = [ran |-> TRUE, P |-> P,
                      rows |-> SelectSeq(get_current_status(store),
                                         LAMBDA r : Capacity(r) > 0),
                      i |-> 1, phase |-> "points", df |-> <<>>, failed |-> {},
                      supply |-> <<>>, remove |-> <<>>, changed |-> FALSE,
                      out |-> [need_supply |-> <<>>, need_remove |-> <<>>]]
        /\ last' = [OpsIdle EXCEPT !.op = "advise"]
        /\ UNCHANGED <<store, utc, offset, sched>>

\* mutant: a failed forecast ends the loop
SkippedToEnd(adv) ==
    [adv EXCEPT !.failed = @ \cup {adv.i}, !.i = Len(adv.rows) + 1,
                !.phase = "points", !.df = <<>>]

\* lines 65-67: except Exception: continue
Skipped(adv) ==
    [adv EXCEPT !.failed = @ \cup {adv.i}, !.i = @ + 1,
                !.phase = "points", !.df = <<>>]

\* lines 69-136 for the row at hand, info being what predict_demand returned
Evaluate(adv, row, info) ==
    [adv EXCEPT
       !.supply = IF AddsSupply(row, info, adv.P)
                  THEN Append(@, SupplyRow(row, info, adv.P)) ELSE @,
       !.remove = IF AddsRemove(row, info, adv.P)
                  THEN Append(@, RemoveRow(row, info, adv.P)) ELSE @,
       !.i = @ + 1, !.phase = "points", !.df = <<>>]

\* _get_recent_points for the row at hand; with three points or more
\* calculate_trend needs no second read
PointsRead(adv, df) ==
    IF Len(df) < 3 THEN [adv EXCEPT !.phase = "latest", !.df = df]
    ELSE Evaluate(adv, adv.rows[adv.i],
                  ForecastOf(TrendOf(df, <<>>), adv.P.minutes_ahead))

AdvisePoints ==
    /\ Running /\ advice.phase = "points" /\ advice.i <= Len(advice.rows)
    /\ \E ok \in BOOLEAN :
          advice' = IF ok
                    THEN PointsRead(advice,
                                    get_recent_points(store, advice.rows[advice.i].sno,
                                                      advice.P.max_points))
                    ELSE Skipped(advice)
    /\ last' = [OpsIdle EXCEPT !.op = "advise"]
    /\ UNCHANGED <<store, utc, offset, sched>>

\* prediction.py 45-62: the second SELECT of calculate_trend
AdviseLatest ==
    /\ Running /\ advice.phase = "latest"
    /\ \E ok \in BOOLEAN :
          advice' = IF ok
                    THEN Evaluate(advice, advice.rows[advice.i],
                                  ForecastOf(TrendOf(advice.df,
                                                     Take(OrderByTimeDesc(
                                                            RowsOf(store, advice.rows[advice.i].sno)), 1)),
                                             advice.P.minutes_ahead))
                    ELSE Skipped(advice)
    /\ last' = [OpsIdle EXCEPT !.op = "advise"]
    /\ UNCHANGED <<store, utc, offset, sched>>

\* rebalancing.py 138-151: sort, head(top_k), return
AdviseFinish ==
    /\ Running /\ advice.phase = "points" /\ advice.i > Len(advice.rows)
    /\ advice' = [advice EXCEPT
                    !.phase = "done",
                    !.out = [need_supply |-> Take(SortByRank(advice.supply, "need_add"),
                                                  advice.P.top_k),
                             need_remove |-> Take(SortByRank(advice.remove, "need_remove"),
                                                  advice.P.top_k)]]
    /\ last' = [OpsIdle EXCEPT !.op = "advise"]
    /\ UNCHANGED <<store, utc, offset, sched>>

OpsNext ==
    \/ OpsTick \/ OpsPoll \/ OpsRetention \/ OpsHistory \/ OpsReport
    \/ AdviseStart \/ AdvisePoints \/ AdviseLatest \/ AdviseFinish

OpsSpec == OpsInit /\ [][OpsNext]_vars


----------------------------------------------------------------------------
(* Claims on the operations specification *)

\* b begins with the rows of a, unchanged and in place
IsPrefixOf(a, b) == Len(a) <= Len(b) /\ SubSeq(b, 1, Len(a)) = a

\* a is what is left of b when some rows are taken out
RECURSIVE IsSubsequence(_, _)
IsSubsequence(a, b) ==
    IF a = <<>> THEN TRUE
    ELSE IF b = <<>> THEN FALSE
    ELSE IF Head(a) = Head(b) THEN IsSubsequence(Tail(a), Tail(b))
    ELSE IsSubsequence(a, Tail(b))

\* C23: across every sequence of poll cycles, retention runs, history and
\* latest queries and advisory steps, a stored row never changes a field
\* after it is written, a row leaves the table only in a retention step,
\* and queries and compute_rebalance leave the table unchanged.
C23_RowsImmutableUntilRetention ==
    [][/\ last'.op = "job" => IsPrefixOf(store, store')
       /\ last'.op = "cleanup" => IsSubsequence(store', store)
       /\ last'.op \notin {"job", "cleanup"} => store' = store]_vars

\* C23 witness: an advisory run has returned; while it ran the table was
\* appended to and a row of its snapshot was deleted by a retention run
C23_Witness ==
    /\ Ended /\ advice.changed
    /\ store # <<>>
    /\ \E i \in 1..Len(advice.rows) :
          \A k \in 1..Len(store) :
              store[k].collection_time # advice.rows[i].collection_time

\* C24: save_data(batch) with a non-empty batch adds exactly one row per
\* batch record, after the rows already stored, which it keeps; a batch
\* that repeats a stored (station_id, collection_time) is inserted all the
\* same.
C24_AppendAddsEveryRecord ==
    Saved =>
        /\ Len(store) = Len(last.before) + Len(last.batch)
        /\ IsPrefixOf(last.before, store)
        /\ \A i \in 1..Len(last.batch) :
              LET r == store[Len(last.before) + i]
              IN  /\ r.sno = last.batch[i].sno
                  /\ r.collection_time = last.batch[i].time
                  /\ r.rent = last.batch[i].rent
                  /\ r.return_count = last.batch[i].return

\* C24 witness: the batch just saved repeats a station and collection_time
\* the table already held
C24_Witness ==
    /\ Saved
    /\ \E i \in 1..Len(last.batch), k \in 1..Len(last.before) :
          /\ last.before[k].sno = last.batch[i].sno
          /\ last.before[k].collection_time = last.batch[i].time


\* how many rows of df have the field at or below the threshold
CountAtRisk(df, field, threshold) ==
    Cardinality({i \in 1..Len(df) : df[i][field] <= threshold})

\* got holds exactly the rows of df with the field at or below the threshold
ExactlyAtRisk(got, df, field, threshold) ==
    /\ IsSubsequence(got, df)
    /\ Len(got) = CountAtRisk(df, field, threshold)
    /\ \A k \in 1..Len(got) : got[k][field] <= threshold

\* C25: for every snapshot, find_high_risk_stations returns as empty-risk
\* exactly the rows with rent <= RISK_THRESHOLD_EMPTY and as full-risk
\* exactly the rows with return_count <= RISK_THRESHOLD_FULL, each computed
\* on its own, and an empty snapshot gives two empty results.
C25_RiskSetsExactAndIndependent ==
    last.op = "report" =>
        /\ ExactlyAtRisk(last.answer.empty_risk, last.batch, "rent", RISK_THRESHOLD_EMPTY)
        /\ ExactlyAtRisk(last.answer.full_risk, last.batch, "return_count",
                         RISK_THRESHOLD_FULL)
        /\ last.batch = <<>> =>
              (last.answer.empty_risk = <<>> /\ last.answer.full_risk = <<>>)

\* C25 witness: the snapshot reported on holds a row at both risks and a
\* row at empty risk only, so the two results differ
C25_Witness ==
    /\ last.op = "report"
    /\ \E i, j \in 1..Len(last.batch) :
          /\ last.batch[i].rent <= RISK_THRESHOLD_EMPTY
          /\ last.batch[i].return_count <= RISK_THRESHOLD_FULL
          /\ last.batch[j].rent <= RISK_THRESHOLD_EMPTY
          /\ last.batch[j].return_count > RISK_THRESHOLD_FULL
    /\ Len(last.answer.full_risk) < Len(last.answer.empty_risk)


\* the entry records a forecast between 0 and the capacity it records
WithinRecordedCapacity(e) ==
    0 <= e.predicted_bikes /\ e.predicted_bikes <= e.capacity

\* C26: while an advisory run interleaves in any way with collector appends
\* and retention deletes, every recommendation it emits satisfies
\* 0 <= predicted_pickup <= capacity for the capacity recorded in it, and
\* the run goes on to return: it never stands where no statement follows.
C26_InterleavedAdviceWithinCapacity ==
    advice.ran =>
        /\ \A k \in 1..Len(advice.supply) : WithinRecordedCapacity(advice.supply[k])
        /\ \A k \in 1..Len(advice.remove) : WithinRecordedCapacity(advice.remove[k])
        /\ \A k \in 1..Len(advice.out.need_supply) :
              WithinRecordedCapacity(advice.out.need_supply[k])
        /\ \A k \in 1..Len(advice.out.need_remove) :
              WithinRecordedCapacity(advice.out.need_remove[k])
        /\ advice.i \in 1..(Len(advice.rows) + 1)
        /\ advice.phase = "latest" => advice.i <= Len(advice.rows)
        /\ Ended => advice.i = Len(advice.rows) + 1

\* C26 witness: a run has returned after the table changed under it, and it
\* recommends a station whose history, read after a later poll, shows more
\* bikes than the snapshot row has room for
C26_Witness ==
    /\ Ended /\ advice.changed
    /\ \E k \in 1..Len(advice.out.need_supply) :
          /\ advice.out.need_supply[k].predicted_bikes = advice.out.need_supply[k].capacity
          /\ advice.out.need_supply[k].current_bikes = 0


\* C27: for every entry of the empty-risk list, predicted_pickup + need_add
\* <= capacity, for every capacity > 0, capacity 1 and 2 included; and for
\* every entry of the full-risk list, need_remove <= predicted_pickup.
C27_RecommendationsFitCapacity ==
    Ended =>
        /\ \A k \in 1..Len(advice.out.need_supply) :
              advice.out.need_supply[k].predicted_bikes
                + advice.out.need_supply[k].need_add
                  <= advice.out.need_supply[k].capacity
        /\ \A k \in 1..Len(advice.out.need_remove) :
              advice.out.need_remove[k].need_remove
                  <= advice.out.need_remove[k].predicted_bikes


\* the rows the run loops over, those whose forecast failed taken out
RECURSIVE RowsLeft(_, _)
RowsLeft(rows, failed) ==
    IF rows = <<>> THEN <<>>
    ELSE IF Len(rows) \in failed
    THEN RowsLeft(SubSeq(rows, 1, Len(rows) - 1), failed)
    ELSE Append(RowsLeft(SubSeq(rows, 1, Len(rows) - 1), failed), rows[Len(rows)])

\* a run has returned in which a forecast failed, the table standing still
FailedInQuiet == Ended /\ ~advice.changed /\ advice.failed # {}

\* C28: in one advisory run, a failure of the forecast for one station
\* removes only that station from the output: every other station of the
\* snapshot is evaluated exactly as if the failing one were absent, and
\* compute_rebalance returns both lists.
C28_FailedForecastSkipsOnlyItsStation ==
    FailedInQuiet =>
        advice.out = compute_rebalance(RowsLeft(advice.rows, advice.failed),
                                       store, advice.P)

\* C28 witness: the forecast failed for one row, and a row that comes after
\* it in the snapshot is recommended all the same
C28_Witness ==
    /\ FailedInQuiet
    /\ \E i \in advice.failed, j \in 1..Len(advice.rows) :
          /\ i < j /\ j \notin advice.failed
          /\ \E k \in 1..Len(advice.out.need_supply) :
                advice.out.need_supply[k].sno = advice.rows[j].sno
          /\ \A f \in advice.failed : advice.rows[f].sno # advice.rows[j].sno


----------------------------------------------------------------------------
(* main.py: the scheduler.  job() and cleanup_old_data() run once, outside *)
(* any try; then both are registered with the schedule library and the     *)
(* loop "run_pending(); sleep(1)" runs inside try / except                 *)
(* KeyboardInterrupt.  The library runs a job whose next_run has come,     *)
(* lets whatever the job raises pass through run_pending, and on return    *)
(* sets next_run to the present instant plus the interval.  A cycle takes  *)
(* dur minutes; the clock is read in whole minutes.                        *)

JobIntervalMinutes == 1
CleanupIntervalHours == 1
RetentionDays == 5

JobInterval == JobIntervalMinutes
CleanupInterval == CleanupIntervalHours * 60

SchedElems == {[obj |-> TRUE, sno |-> "A", rent |-> RawInt(1), ret |-> RawInt(1)]}
Durations == {0, MaxDur}

\* one poll cycle at the present instant, taking dur minutes
PollCycle(resp, dbOk, dur) ==
    LET j == job(store, resp, utc + offset, dbOk)
    IN  /\ Len(store) + Len(resp.elems) <= MaxSchedRows
        /\ utc + dur <= MaxMinutes
        /\ store' = j.store
        /\ utc' = utc + dur
        /\ last' = [op |-> "job", resp |-> resp, fetch |-> j.fetch.tag,
                    raised |-> j.raised, before |-> store,
                    batch |-> j.fetch.rows, days |-> 0]

\* one retention cycle at the present instant, taking dur minutes
RetentionCycle(dbOk, dur) ==
    LET c == cleanup_old_data(store, RetentionDays, utc, dbOk)
    IN  /\ utc + dur <= MaxMinutes
        /\ store' = c.store
        /\ utc' = utc + dur
        /\ last' = [op |-> "cleanup", resp |-> NotJson, fetch |-> "none",
                    raised |-> c.raised, before |-> store,
                    batch |-> <<>>, days |-> RetentionDays]

SchedInit ==
    /\ store = <<>>
    /\ utc = 0
    /\ offset = 0
    /\ last = Idle
    /\ advice = NoAdvice
    /\ pc = "first_job"
    /\ nextJob = 0
    /\ nextCleanup = 0

\* main.py 19: job(), not inside any try
FirstJob ==
    /\ pc = "first_job"
    /\ \E resp \in Responses(SchedElems), dbOk \in BOOLEAN, dur \in Durations :
          /\ PollCycle(resp, dbOk, dur)
          /\ pc' = IF last'.raised THEN "crashed" ELSE "first_cleanup"
    /\ UNCHANGED <<offset, advice, nextJob, nextCleanup>>

\* main.py 20: cleanup_old_data(), not inside any try
FirstCleanup ==
    /\ pc = "first_cleanup"
    /\ \E dbOk \in BOOLEAN, dur \in Durations :
          /\ RetentionCycle(dbOk, dur)
          /\ pc' = IF last'.raised THEN "crashed" ELSE "register"
    /\ UNCHANGED <<offset, advice, nextJob, nextCleanup>>

\* main.py 23-26: every(1).minutes.do(job), every(1).hours.do(cleanup_old_data)
Register ==
    /\ pc = "register"
    /\ nextJob' = utc + JobInterval
    /\ nextCleanup' = utc + CleanupInterval
    /\ pc' = "loop"
    /\ UNCHANGED <<store, utc, offset, last, advice>>

JobDue == nextJob <= utc
CleanupDue == nextCleanup <= utc

\* run_pending: the job is due and comes first in next_run order
RunJob ==
    /\ pc = "loop"
    /\ JobDue /\ (CleanupDue => nextJob <= nextCleanup)
    /\ \E resp \in Responses(SchedElems), dbOk \in BOOLEAN, dur \in Durations :
          /\ PollCycle(resp, dbOk, dur)
          /\ pc' = IF last'.raised THEN "crashed" ELSE "loop"
          /\ nextJob' = IF last'.raised THEN nextJob ELSE utc' + JobInterval
    /\ UNCHANGED <<offset, advice, nextCleanup>>

\* run_pending: cleanup_old_data is due and comes first in next_run order
RunCleanup ==
    /\ pc = "loop"
    /\ CleanupDue /\ (JobDue => nextCleanup < nextJob)
    /\ \E dbOk \in BOOLEAN, dur \in Durations :
          /\ RetentionCycle(dbOk, dur)
          /\ pc' = IF last'.raised THEN "crashed" ELSE "loop"
          /\ nextCleanup' = IF last'.raised THEN nextCleanup ELSE utc' + CleanupInterval
    /\ UNCHANGED <<offset, advice, nextJob>>

\* time.sleep(1) with nothing due, until the next minute
Sleep ==
    /\ pc = "loop"
    /\ ~JobDue /\ ~CleanupDue
    /\ utc < MaxMinutes
    /\ utc' = utc + 1
    /\ last' = Idle
    /\ UNCHANGED <<store, offset, advice, sched>>

\* Ctrl+C while the loop sleeps: except KeyboardInterrupt, main.py 34-35
Interrupt ==
    /\ pc = "loop"
    /\ pc' = "stopped"
    /\ UNCHANGED <<store, utc, offset, last, advice, nextJob, nextCleanup>>

SchedNext ==
    FirstJob \/ FirstCleanup \/ Register \/ RunJob \/ RunCleanup \/ Sleep \/ Interrupt

SchedSpec == SchedInit /\ [][SchedNext]_vars

\* a cycle has just failed in the storage engine: the INSERT of save_data
\* or the DELETE of cleanup_old_data raised
StorageFailed ==
    /\ last.raised
    /\ \/ last.op = "cleanup"
       \/ last.op = "job" /\ last.fetch = "df"

\* C1: a storage failure raised by the append of a poll cycle or by the
\* delete of a retention cycle, the first immediate runs included, does not
\* terminate the scheduler: the loop stays running.
C1_StorageFailureDoesNotStopScheduler ==
    StorageFailed => pc \in {"first_cleanup", "register", "loop"}

\* a poll cycle run by the loop has taken longer than the poll interval
PollOverran ==
    /\ pc = "loop" /\ pc' = "loop"
    /\ last'.op = "job"
    /\ utc' - utc > JobInterval

\* C20: no two cycles run at once, and when a poll cycle runs longer than
\* the poll interval, every tick that became due meanwhile is still executed
\* afterwards rather than dropped: when the cycle returns, a poll is pending
\* at once.
C20_OverrunTicksStillExecuted ==
    [][PollOverran => nextJob' <= utc']_vars


----------------------------------------------------------------------------
(* main.py under a stop signal.  Ctrl+C raises KeyboardInterrupt in the    *)
(* main thread at whatever point it stands: in time.sleep, inside          *)
(* session.get, between fetch_data and save_data, inside the DELETE.       *)
(* KeyboardInterrupt is not an Exception, so the "except Exception"        *)
(* clauses of fetch_data let it pass; in the loop it reaches "except       *)
(* KeyboardInterrupt" (main.py 34-35), in the first immediate runs it      *)
(* leaves main() uncaught.  A cycle is therefore taken in steps here: the  *)
(* poll is "fetching" until fetch_data returns and "saving" until the      *)
(* INSERT commits; the retention run is "deleting" until the DELETE        *)
(* commits.  An interrupted statement is rolled back by the engine.        *)

Registered == nextCleanup > 0

InFlight == {"fetching", "saving", "deleting"}

\* the cycle that is in flight, before anything of it is known
Started(op) ==
    [op |-> op, resp |-> NotJson, fetch |-> "none", raised |-> FALSE,
     before |-> store, batch |-> <<>>, days |-> 0]

StopInit == SchedInit

\* job() is entered: main.py 19, or run_pending with the job due
StartJob ==
    /\ \/ pc = "first_job"
       \/ pc = "loop" /\ JobDue /\ (CleanupDue => nextJob <= nextCleanup)
    /\ pc' = "fetching"
    /\ last' = Started("job")
    /\ UNCHANGED <<store, utc, offset, advice, nextJob, nextCleanup>>

\* where main() goes on when job() has returned
AfterJob == IF Registered THEN "loop" ELSE "first_cleanup"

\* fetch_data returns: no frame ends the cycle, a frame goes on to save_data
Fetched ==
    /\ pc = "fetching"
    /\ \E resp \in Responses(SchedElems) :
          /\ Len(store) + Len(resp.elems) <= MaxSchedRows
          /\ last' = [last EXCEPT !.resp = resp,
                                  !.fetch = fetch_data(resp, utc + offset).tag,
                                  !.raised = fetch_data(resp, utc + offset).tag = "raise",
                                  !.batch = fetch_data(resp, utc + offset).rows]
          /\ pc' = IF last'.fetch = "raise" THEN "crashed"
                   ELSE IF last'.fetch = "df" THEN "saving"
                   ELSE AfterJob
          /\ nextJob' = IF last'.fetch = "none" /\ Registered
                        THEN utc + JobInterval ELSE nextJob
    /\ UNCHANGED <<store, utc, offset, advice, nextCleanup>>

\* save_data returns or raises
Saving ==
    /\ pc = "saving"
    /\ \E dbOk \in BOOLEAN :
          /\ store' = save_data(store, last.batch, dbOk).store
          /\ last' = [last EXCEPT !.raised = save_data(store, last.batch, dbOk).raised]
          /\ pc' = IF last'.raised THEN "crashed" ELSE AfterJob
          /\ nextJob' = IF ~last'.raised /\ Registered
                        THEN utc + JobInterval ELSE nextJob
    /\ UNCHANGED <<utc, offset, advice, nextCleanup>>

\* cleanup_old_data() is entered: main.py 20, or run_pending with it due
StartCleanup ==
    /\ \/ pc = "first_cleanup"
       \/ pc = "loop" /\ CleanupDue /\ (JobDue => nextCleanup < nextJob)
    /\ pc' = "deleting"
    /\ last' = [Started("cleanup") EXCEPT !.days = RetentionDays]
    /\ UNCHANGED <<store, utc, offset, advice, nextJob, nextCleanup>>

\* the DELETE returns or raises
Deleting ==
    /\ pc = "deleting"
    /\ \E dbOk \in BOOLEAN :
          /\ store' = cleanup_old_data(store, RetentionDays, utc, dbOk).store
          /\ last' = [last EXCEPT
                        !.raised = cleanup_old_data(store, RetentionDays, utc, dbOk).raised]
          /\ pc' = IF last'.raised THEN "crashed"
                   ELSE IF Registered THEN "loop" ELSE "register"
          /\ nextCleanup' = IF ~last'.raised /\ Registered
                            THEN utc + CleanupInterval ELSE nextCleanup
    /\ UNCHANGED <<utc, offset, advice, nextJob>>

\* time.sleep(1) with nothing due, until the next minute
StopSleep ==
    /\ pc = "loop"
    /\ ~JobDue /\ ~CleanupDue
    /\ utc < MaxStopMinutes
    /\ utc' = utc + 1
    /\ last' = Idle
    /\ UNCHANGED <<store, offset, advice, sched>>

\* the signal arrives while the loop sleeps: main.py 34-35
SignalAsleep ==
    /\ pc = "loop"
    /\ pc' = "stopped"
    /\ UNCHANGED <<store, utc, offset, last, advice, nextJob, nextCleanup>>

\* the signal arrives inside a cycle: KeyboardInterrupt is raised inside
\* job() or cleanup_old_data() and unwinds it; what the cycle had not yet
\* committed is never written
SignalInFlight ==
    /\ pc \in InFlight
    /\ pc' = "stopped"
    /\ last' = [last EXCEPT !.raised = TRUE]
    /\ UNCHANGED <<store, utc, offset, advice, nextJob, nextCleanup>>

StopNext ==
    \/ StartJob \/ Fetched \/ Saving \/ StartCleanup \/ Deleting
    \/ Register \/ StopSleep \/ SignalAsleep \/ SignalInFlight

StopSpec == StopInit /\ [][StopNext]_vars

\* the process has stopped on a signal that found a poll cycle holding a
\* frame it had not yet appended
StoppedBeforeAppend ==
    pc = "stopped" /\ last.op = "job" /\ last.fetch = "df" /\ last.raised

\* C21: after a stop signal no new poll or retention cycle is started, and
\* a cycle that was in flight when the signal arrived runs to completion
\* before the process stops: the frame a poll had fetched is appended.
C21_InFlightCycleCompletes ==
    StoppedBeforeAppend => store = last.before \o save_data_rows(last.batch)


====
